---- MODULE Spec2Model ----
(***************************************************************************)
(* A model of ilastik's cluster operators (src/ilastik/clusterOps.py):     *)
(* OpClusterize (the coordinator: partition, clean, launch, poll, merge)   *)
(* and OpTaskWorker (the worker run by each spawned process), together     *)
(* with the entry point main of pixelClassificationClusterized.py.         *)
(***************************************************************************)
EXTENDS Integers, Sequences, FiniteSets, TLC

\* ---------------------------------------------------------------- bounds
MaxExtent == 5      \* largest extent of an axis drawn for the partitioner
MaxNumJobs == 4     \* NumJobs is drawn from -MaxNumJobs .. MaxNumJobs
MaxTasks == 2       \* most regions of a run of the coordinator
MaxPolls == 2       \* TaskTimeoutSeconds is drawn from 0 .. MaxPolls poll intervals

\* The axis keys a tagged shape is drawn from: the three keys _getRoiList
\* splits along and one (channel) it does not.
AxisKeys == {"x", "y", "z", "c"}

VARIABLES
    \* the coordinator's input slots
    taggedShape,     \* Input.meta.getTaggedShape(): sequence of [key, dim]
    numJobs,         \* NumJobs.value
    commandFormat,   \* CommandFormat.value, as a sequence of tokens
    timeOut,         \* TaskTimeoutSeconds.value
    \* OpClusterize.execute
    pc,              \* position of the coordinator
    raised,          \* the exception that ended execute ("" when none)
    roiList,         \* what _getRoiList returned or raised
    roiIndex,        \* _prepareTaskInfos: regions handled so far
    taskInfos,       \* dict roi -> TaskInfo: the jobs still polled for
    toLaunch,        \* launch loop: jobs whose thread is not started yet
    success,         \* execute's success flag
    totalTimer,      \* Timer: [startTime, stopTime], None when unset
    toScan,          \* _copyFinishedResults: jobs the pass has yet to visit
    current,         \* _copyFinishedResults: the loop variable roi
    finished_rois,   \* _copyFinishedResults: jobs copied in this pass
    result,          \* ReturnCode: the buffer execute fills, << >> until then
    exitCode,        \* what main returns
    \* the world around the coordinator
    now,             \* wall clock, in seconds within the day (all a Timer reads)
    fs,              \* scratch directory: path -> file content
    removedStale,    \* whether _prepareTaskInfos has removed a file it found
    clusterResult,   \* dataset 'cluster_result' of the output file
    workers          \* spawned node processes: taskName -> process state

vars == <<taggedShape, numJobs, commandFormat, timeOut, pc, raised, roiList,
          roiIndex, taskInfos, toLaunch, success, totalTimer, toScan, current,
          finished_rois, result, exitCode, now, fs, removedStale, clusterResult, workers>>

inputVars == <<taggedShape, numJobs, commandFormat, timeOut>>

\* ------------------------------------------------------------ _getRoiList

\* Python 2 '/' on integers: floor division, for either sign of the divisor.
PyFloorDiv(a, b) ==
    IF b > 0 THEN a \div b ELSE (0 - a) \div (0 - b)

\* range(0, stop, step) for step # 0, as the sequence Python builds.
PyRange(stop, step) ==
    IF step < 0 \/ stop <= 0
    THEN << >>
    ELSE [n \in 1 .. ((stop + step - 1) \div step) |-> (n - 1) * step]

\* int(round(math.pow(j, 1.0/s))) for j >= 1, s >= 1: the integer k with
\* k - 1/2 <= j^(1/s) < k + 1/2, that is (2k-1)^s <= 2^s * j < (2k+1)^s.
\* (j^(1/s) is never half-way between two integers: (2k+1)^s is odd.)
RoundRoot(j, s) ==
    CHOOSE k \in 1 .. j : (2 * k - 1) ^ s <= (2 ^ s) * j /\ (2 ^ s) * j < (2 * k + 1) ^ s

\* Mutant of IsSpaceDim: the test of the axis key is left out.
IsSpaceDim_AnyKey(axis) == axis.dim > 1

\* spaceDims = filter(lambda (key, dim): key in 'xyz' and dim > 1, ...)
IsSpaceDim(axis) == axis.key \in {"x", "y", "z"} /\ axis.dim > 1

SpaceDims(shape) == {i \in 1 .. Len(shape) : IsSpaceDim(shape[i])}

\* itertools.product of a sequence of sequences, in the order Python yields
\* (the last axis varies fastest).
RECURSIVE Product(_)
Product(seqs) ==
    IF Len(seqs) = 0
    THEN << << >> >>
    ELSE LET rest == Product(Tail(seqs))
             head == Head(seqs)
             n == Len(rest)
         IN  [m \in 1 .. (Len(head) * n) |->
                 <<head[((m - 1) \div n) + 1]>> \o rest[((m - 1) % n) + 1]]

\* stop = numpy.minimum(start + roiShape, inputShape)
RoiStop(start, roiShape, inputShape) ==
    [i \in 1 .. Len(start) |->
        IF start[i] + roiShape[i] < inputShape[i]
        THEN start[i] + roiShape[i] ELSE inputShape[i]]

\* Mutant of AxisStarts: the range takes in its stop.
AxisStarts_Inclusive(stop, step) ==
    IF step < 0 \/ stop <= 0
    THEN << >>
    ELSE [n \in 1 .. ((stop \div step) + 1) |-> (n - 1) * step]

\* The start indices range(0, stop, step) along one axis.
AxisStarts(stop, step) == PyRange(stop, step)

\* The block extent along one axis: dim / numJobsPerSpaceDim on a space
\* dimension, dim elsewhere.
AxisBlock(axis, numJobsPerSpaceDim) ==
    IF IsSpaceDim(axis) THEN PyFloorDiv(axis.dim, numJobsPerSpaceDim) ELSE axis.dim

\* OpClusterize._getRoiList: the list of (start, stop), or the exception the
\* call ends with.
GetRoiList(shape, jobs) ==
    LET s == Cardinality(SpaceDims(shape))
        inputShape == [i \in 1 .. Len(shape) |-> shape[i].dim]
    IN  IF s = 0
        THEN [ok |-> FALSE, error |-> "ZeroDivisionError", rois |-> << >>]  \* 1.0/len(spaceDims)
        ELSE IF jobs < 0 /\ s > 1
        THEN [ok |-> FALSE, error |-> "ValueError", rois |-> << >>]         \* math.pow domain error
        ELSE LET k == IF jobs >= 1 THEN RoundRoot(jobs, s) ELSE jobs
             IN  IF k = 0
                 THEN [ok |-> FALSE, error |-> "ZeroDivisionError", rois |-> << >>]  \* dim / 0
                 ELSE LET roiShape == [i \in 1 .. Len(shape) |-> AxisBlock(shape[i], k)]
                      IN  IF \E i \in 1 .. Len(shape) : roiShape[i] = 0
                          THEN [ok |-> FALSE, error |-> "ValueError", rois |-> << >>]  \* range() step 0
                          ELSE LET starts == Product([i \in 1 .. Len(shape) |->
                                                 AxisStarts(inputShape[i], roiShape[i])])
                               IN  [ok |-> TRUE, error |-> "",
                                    rois |-> [m \in 1 .. Len(starts) |->
                                        [start |-> starts[m],
                                         stop |-> RoiStop(starts[m], roiShape, inputShape)]]]

\* ------------------------------------------------- constants of the code

PollInterval == 15          \* time.sleep(15.0)
SecondsPerDay == 86400      \* timedelta.seconds leaves whole days out

None == -1                  \* a Timer field not set yet

\* ------------------------------------------------------------------ Timer

\* Timer.__enter__
TimerEnter(t) == [t EXCEPT !.startTime = now]

\* Timer.__exit__
TimerExit(t) == [t EXCEPT !.stopTime = now]

\* Timer.seconds(): the .seconds field of the timedelta, which counts the
\* seconds within the last day only.
TimerSeconds(t) ==
    IF t.stopTime = None
    THEN (now - t.startTime) % SecondsPerDay
    ELSE (t.stopTime - t.startTime) % SecondsPerDay

\* ------------------------------------------------------- files and tasks

\* A region as the key of taskInfos: (tuple(start), tuple(stop)).
RoiKey(r) == <<r.start, r.stop>>

\* STATUS_FILE_NAME_FORMAT.format(taskName, str(roi)) in the scratch
\* directory: the path is its two arguments.
StatusFilePath(taskName, roi) == [kind |-> "status", taskName |-> taskName, roi |-> roi]

\* OUTPUT_FILE_NAME_FORMAT.format(taskName, str(roi)) in the scratch directory.
OutputFilePath(taskName, roi) == [kind |-> "output", taskName |-> taskName, roi |-> roi]

\* os.path.exists
Exists(files, path) == path \in DOMAIN files

\* os.remove (called only on a path that exists)
Remove(files, path) == [q \in (DOMAIN files) \ {path} |-> files[q]]

\* Opening a path for writing and writing content to it.
WriteFile(files, path, content) ==
    [q \in (DOMAIN files) \cup {path} |-> IF q = path THEN content ELSE files[q]]

\* Roi.dumps(subregion): the pickled SubRegion carries slot, start, stop, dim.
RoiDumps(subregion) ==
    [slot |-> "None", start |-> subregion.start, stop |-> subregion.stop,
     dim |-> Len(subregion.start)]

\* Roi.loads(roiString)
RoiLoads(roiString) == [start |-> roiString.start, stop |-> roiString.stop]

\* assert commandFormat.find("{args}") != -1
HasArgsPlaceholder(format) == \E i \in 1 .. Len(format) : format[i] = "{args}"

\* Mutant of MakeTaskInfo: the subregion handed to Roi.dumps is built with
\* stop = roi[0].
MakeTaskInfo_DumpsStartTwice(index, r) ==
    LET roi == RoiKey(r)
        subregion == [start |-> roi[1], stop |-> roi[2]]
    IN  [taskName |-> index,
         command |-> [format |-> commandFormat,
                      node_work |-> RoiDumps([start |-> roi[1], stop |-> roi[1]]),
                      process_name |-> index],
         statusFilePath |-> StatusFilePath(index, roi),
         outputFilePath |-> OutputFilePath(index, roi),
         subregion |-> subregion]

\* The TaskInfo _prepareTaskInfos builds for region number roiIndex (from 0).
MakeTaskInfo(index, r) ==
    LET roi == RoiKey(r)
        subregion == [start |-> roi[1], stop |-> roi[2]]
    IN  [taskName |-> index,
         command |-> [format |-> commandFormat,
                      node_work |-> RoiDumps(subregion),
                      process_name |-> index],
         statusFilePath |-> StatusFilePath(index, roi),
         outputFilePath |-> OutputFilePath(index, roi),
         subregion |-> subregion]

\* Mutant of RemoveStaleFiles: only the output file is deleted.
RemoveStaleFiles_OutputOnly(files, taskInfo) ==
    IF Exists(files, taskInfo.outputFilePath)
    THEN Remove(files, taskInfo.outputFilePath) ELSE files

\* "If files are still hanging around from the last run, delete them."
RemoveStaleFiles(files, taskInfo) ==
    LET noStatus == IF Exists(files, taskInfo.statusFilePath)
                    THEN Remove(files, taskInfo.statusFilePath) ELSE files
    IN  IF Exists(noStatus, taskInfo.outputFilePath)
        THEN Remove(noStatus, taskInfo.outputFilePath) ELSE noStatus

\* Input.meta: the element type and axis tags every result is checked against.
InputDtype == "float32"
InputAxistags(shape) == [i \in 1 .. Len(shape) |-> shape[i].key]
InputShape(shape) == [i \in 1 .. Len(shape) |-> shape[i].dim]

\* The index tuples of an array of the given shape.
Cells(shape) ==
    LET widest == CHOOSE d \in {shape[i] : i \in 1 .. Len(shape)} :
                      \A i \in 1 .. Len(shape) : shape[i] <= d
    IN  {c \in [1 .. Len(shape) -> 0 .. widest - 1] : \A i \in 1 .. Len(shape) : c[i] < shape[i]}

\* subregion.toSlice(): the cells start <= c < stop
InSlice(c, subregion) ==
    \A i \in 1 .. Len(c) : subregion.start[i] <= c[i] /\ c[i] < subregion.stop[i]

\* ---------------------------------------------------------------- a run

\* The inputs a run of the coordinator is drawn from.
RunShapes ==
    { <<[key |-> "x", dim |-> 2], [key |-> "c", dim |-> 2]>>,
      <<[key |-> "x", dim |-> 5]>>,
      <<[key |-> "c", dim |-> 2]>> }

RunInputs ==
    {in \in [shape : RunShapes, jobs : (0 - 1) .. (MaxTasks + 1)] :
        Len(GetRoiList(in.shape, in.jobs).rois) <= MaxTasks}

CommandFormats ==
    { <<"qsub", "-N", "{task_name}", "ilastik_clusterized", "{args}">>,
      <<"qsub", "-N", "{task_name}", "ilastik_clusterized">> }

\* What an earlier run left in the scratch directory at the paths of this
\* run's jobs: per job nothing, its output file, or its output and status files.
StaleStatus == [by |-> "prior", writer |-> None, complete |-> TRUE]

StaleOutput(r) ==
    [by |-> "prior", writer |-> None, complete |-> TRUE,
     shape |-> [i \in 1 .. Len(r.start) |-> r.stop[i] - r.start[i]],
     dtype |-> InputDtype, axistags |-> << >>]

StaleFiles(rois, left) ==
    LET paths == {StatusFilePath(m - 1, RoiKey(rois[m])) : m \in {n \in 1 .. Len(rois) : left[n] = "both"}}
                 \cup {OutputFilePath(m - 1, RoiKey(rois[m])) : m \in {n \in 1 .. Len(rois) : left[n] # "none"}}
    IN  [q \in paths |->
            IF q.kind = "status" THEN StaleStatus
            ELSE StaleOutput([start |-> q.roi[1], stop |-> q.roi[2]])]

NoRoiList == [ok |-> FALSE, error |-> "not called", rois |-> << >>]
NoTimer == [startTime |-> None, stopTime |-> None]
NoRoi == << << >>, << >> >>
NoFiles == [q \in {} |-> StaleStatus]
NoDataset == [exists |-> FALSE, writes |-> [c \in {} |-> << >>]]

Init ==
    /\ \E in \in RunInputs :
         /\ taggedShape = in.shape
         /\ numJobs = in.jobs
         /\ \E left \in [1 .. Len(GetRoiList(in.shape, in.jobs).rois) -> {"none", "output", "both"}] :
              fs = StaleFiles(GetRoiList(in.shape, in.jobs).rois, left)
    /\ removedStale = FALSE
    /\ commandFormat \in CommandFormats
    /\ timeOut \in {n * PollInterval : n \in 0 .. MaxPolls}
    /\ pc = "start"
    /\ raised = ""
    /\ roiList = NoRoiList
    /\ roiIndex = 0
    /\ taskInfos = [q \in {} |-> 0]
    /\ toLaunch = {}
    /\ success = TRUE
    /\ totalTimer = NoTimer
    /\ toScan = {}
    /\ current = NoRoi
    /\ finished_rois = {}
    /\ result = << >>
    /\ exitCode = None
    /\ now = 0
    /\ clusterResult = NoDataset
    /\ workers = [q \in {} |-> 0]

\* taskInfos = self._prepareTaskInfos(): rois = self._getRoiList()
CallGetRoiList ==
    /\ pc = "start"
    /\ roiList' = GetRoiList(taggedShape, numJobs)
    /\ pc' = IF roiList'.ok THEN "prepare" ELSE "raised"
    /\ raised' = IF roiList'.ok THEN "" ELSE roiList'.error
    /\ UNCHANGED <<inputVars, roiIndex, taskInfos, toLaunch, success, totalTimer,
                   toScan, current, finished_rois, result, exitCode, now, fs, removedStale,
                   clusterResult, workers>>

\* _prepareTaskInfos: one pass of "for roiIndex, roi in enumerate(rois)":
\* the assertion on the command format, the TaskInfo, the stale files.
PrepareTaskInfo ==
    /\ pc = "prepare"
    /\ roiIndex < Len(roiList.rois)
    /\ IF ~HasArgsPlaceholder(commandFormat)
       THEN /\ pc' = "raised"
            /\ raised' = "AssertionError"
            /\ UNCHANGED <<roiIndex, taskInfos, fs, removedStale>>
       ELSE LET r == roiList.rois[roiIndex + 1]
                taskInfo == MakeTaskInfo(roiIndex, r)
            IN  /\ taskInfos' = [q \in (DOMAIN taskInfos) \cup {RoiKey(r)} |->
                                    IF q = RoiKey(r) THEN taskInfo ELSE taskInfos[q]]
                /\ fs' = RemoveStaleFiles(fs, taskInfo)
                /\ removedStale' = (removedStale \/ fs' # fs)
                /\ roiIndex' = roiIndex + 1
                /\ UNCHANGED <<pc, raised>>
    /\ UNCHANGED <<inputVars, roiList, toLaunch, success, totalTimer, toScan, current,
                   finished_rois, result, exitCode, now, clusterResult, workers>>

\* _prepareTaskInfos returns taskInfos; execute enters its launch loop.
PrepareDone ==
    /\ pc = "prepare"
    /\ roiIndex = Len(roiList.rois)
    /\ pc' = "launch"
    /\ toLaunch' = DOMAIN taskInfos
    /\ UNCHANGED <<inputVars, raised, roiList, roiIndex, taskInfos, success, totalTimer,
                   toScan, current, finished_rois, result, exitCode, now, fs, removedStale,
                   clusterResult, workers>>

\* Mutant of SpawnedProcess: the command carries no --process_name, so the
\* node runs under runWorkflow's default task name.
SpawnedProcess_DefaultName(taskInfo) ==
    [pc |-> "spawned",
     TaskName |-> None,
     RoiString |-> taskInfo.command.node_work]

\* The node process a started thread spawns (subprocess.call of the command):
\* runWorkflow hands it --process_name and --_node_work_.
SpawnedProcess(taskInfo) ==
    [pc |-> "spawned",
     TaskName |-> taskInfo.command.process_name,
     RoiString |-> taskInfo.command.node_work]

\* The order in which a loop over taskInfos takes the jobs: a dict yields its
\* keys in one fixed order; the jobs differ in nothing but their regions, so
\* the model takes them by task number.
IsNextOf(roi, rois) ==
    /\ roi \in rois
    /\ \A other \in rois : taskInfos[roi].taskName <= taskInfos[other].taskName

\* Mutant of LaunchTask: subprocess.call is made in the coordinator's own
\* thread, so a job is launched only once the commands before it returned.
LaunchTask_Blocking(roi) ==
    /\ pc = "launch"
    /\ IsNextOf(roi, toLaunch)
    /\ \A t \in DOMAIN workers : workers[t].pc \in {"done", "crashed", "spawn failed"}
    /\ toLaunch' = toLaunch \ {roi}
    /\ workers' = [t \in (DOMAIN workers) \cup {taskInfos[roi].taskName} |->
                      IF t = taskInfos[roi].taskName
                      THEN SpawnedProcess(taskInfos[roi]) ELSE workers[t]]
    /\ UNCHANGED <<inputVars, pc, raised, roiList, roiIndex, taskInfos, success,
                   totalTimer, toScan, current, finished_rois, result, exitCode, now,
                   fs, removedStale, clusterResult>>

\* Mutant of LaunchTask: the job stays in the list of the jobs to launch.
LaunchTask_KeepsQueued(roi) ==
    /\ pc = "launch"
    /\ IsNextOf(roi, toLaunch)
    /\ toLaunch' = toLaunch
    /\ workers' = [t \in (DOMAIN workers) \cup {taskInfos[roi].taskName} |->
                      IF t = taskInfos[roi].taskName
                      THEN SpawnedProcess(taskInfos[roi]) ELSE workers[t]]
    /\ UNCHANGED <<inputVars, pc, raised, roiList, roiIndex, taskInfos, success,
                   totalTimer, toScan, current, finished_rois, result, exitCode, now,
                   fs, removedStale, clusterResult>>

\* "for taskInfo in taskInfos.values()": th = threading.Thread(...); th.start()
LaunchTask(roi) ==
    /\ pc = "launch"
    /\ IsNextOf(roi, toLaunch)
    /\ toLaunch' = toLaunch \ {roi}
    /\ workers' = [t \in (DOMAIN workers) \cup {taskInfos[roi].taskName} |->
                      IF t = taskInfos[roi].taskName
                      THEN SpawnedProcess(taskInfos[roi]) ELSE workers[t]]
    /\ UNCHANGED <<inputVars, pc, raised, roiList, roiIndex, taskInfos, success,
                   totalTimer, toScan, current, finished_rois, result, exitCode, now,
                   fs, removedStale, clusterResult>>

\* timeOut = self.TaskTimeoutSeconds.value; with Timer() as totalTimer:
LaunchDone ==
    /\ pc = "launch"
    /\ toLaunch = {}
    /\ totalTimer' = TimerEnter(totalTimer)
    /\ pc' = "loop"
    /\ UNCHANGED <<inputVars, raised, roiList, roiIndex, taskInfos, toLaunch, success,
                   toScan, current, finished_rois, result, exitCode, now, fs, removedStale,
                   clusterResult, workers>>

\* Mutant of LoopTest: the timeout leaves the loop without clearing success.
LoopTest_KeepsSuccess ==
    /\ pc = "loop"
    /\ IF Cardinality(DOMAIN taskInfos) = 0 \/ TimerSeconds(totalTimer) >= timeOut
       THEN /\ pc' = "return"
            /\ totalTimer' = TimerExit(totalTimer)
       ELSE /\ pc' = "sleep"
            /\ UNCHANGED totalTimer
    /\ UNCHANGED <<inputVars, raised, roiList, roiIndex, taskInfos, toLaunch, toScan,
                   current, finished_rois, result, exitCode, now, fs, removedStale,
                   clusterResult, workers, success>>

\* Mutant of LoopTest: after the timeout one more pass is made.
LoopTest_GracePass ==
    /\ pc = "loop"
    /\ IF Cardinality(DOMAIN taskInfos) = 0 \/ (TimerSeconds(totalTimer) >= timeOut /\ ~success)
       THEN /\ pc' = "return"
            /\ totalTimer' = TimerExit(totalTimer)
            /\ UNCHANGED success
       ELSE IF TimerSeconds(totalTimer) >= timeOut
       THEN /\ success' = FALSE
            /\ pc' = "sleep"
            /\ UNCHANGED totalTimer
       ELSE /\ pc' = "sleep"
            /\ UNCHANGED <<success, totalTimer>>
    /\ UNCHANGED <<inputVars, raised, roiList, roiIndex, taskInfos, toLaunch, toScan,
                   current, finished_rois, result, exitCode, now, fs, removedStale,
                   clusterResult, workers>>

\* "while len(taskInfos) > 0": the loop test, then the timeout test.
LoopTest ==
    /\ pc = "loop"
    /\ IF Cardinality(DOMAIN taskInfos) = 0
       THEN /\ pc' = "return"
            /\ totalTimer' = TimerExit(totalTimer)
            /\ UNCHANGED success
       ELSE IF TimerSeconds(totalTimer) >= timeOut
       THEN /\ success' = FALSE
            /\ pc' = "return"
            /\ totalTimer' = TimerExit(totalTimer)
       ELSE /\ pc' = "sleep"
            /\ UNCHANGED <<success, totalTimer>>
    /\ UNCHANGED <<inputVars, raised, roiList, roiIndex, taskInfos, toLaunch, toScan,
                   current, finished_rois, result, exitCode, now, fs, removedStale,
                   clusterResult, workers>>

\* time.sleep(15.0), then the call of _copyFinishedResults(taskInfos)
Sleep ==
    /\ pc = "sleep"
    /\ now' = (now + PollInterval) % SecondsPerDay
    /\ pc' = "scan"
    /\ toScan' = DOMAIN taskInfos
    /\ finished_rois' = {}
    /\ UNCHANGED <<inputVars, raised, roiList, roiIndex, taskInfos, toLaunch, success,
                   totalTimer, current, result, exitCode, fs, removedStale, clusterResult, workers>>

\* _copyFinishedResults: "for roi, taskInfo in taskInfos.items()" takes the
\* next job of the pass.
ScanNext(roi) ==
    /\ pc = "scan"
    /\ IsNextOf(roi, toScan)
    /\ toScan' = toScan \ {roi}
    /\ current' = roi
    /\ pc' = "body"
    /\ UNCHANGED <<inputVars, raised, roiList, roiIndex, taskInfos, toLaunch, success,
                   totalTimer, finished_rois, result, exitCode, now, fs, removedStale,
                   clusterResult, workers>>

\* The checks of a result file: shape, dtype and axistags against the input's.
ResultIsValid(f, roi) ==
    /\ f.shape = [i \in 1 .. Len(roi[1]) |-> roi[2][i] - roi[1][i]]
    /\ f.dtype = InputDtype
    /\ f.axistags = InputAxistags(taggedShape)

\* destinationFile['cluster_result'][key] = f['node_result'][:], the dataset
\* created with the input's shape when the file does not hold it yet.
WriteClusterResult(dataset, taskInfo) ==
    [exists |-> TRUE,
     writes |-> [c \in Cells(InputShape(taggedShape)) |->
                    LET old == IF dataset.exists THEN dataset.writes[c] ELSE << >>
                    IN  IF InSlice(c, taskInfo.subregion)
                        THEN Append(old, taskInfo.taskName) ELSE old]]

\* Mutant of CopyOutcome: a job whose output file is missing is skipped.
CopyOutcome_SkipsMissing(files, taskInfo, roi) ==
    IF ~Exists(files, taskInfo.statusFilePath) THEN "continue"
    ELSE IF ~Exists(files, taskInfo.outputFilePath) THEN "continue"
    ELSE IF ~files[taskInfo.outputFilePath].complete THEN "IOError"
    ELSE IF ~ResultIsValid(files[taskInfo.outputFilePath], roi) THEN "AssertionError"
    ELSE "copy"

\* Mutant of CopyOutcome: the result file is copied without the checks.
CopyOutcome_NoChecks(files, taskInfo, roi) ==
    IF ~Exists(files, taskInfo.statusFilePath) THEN "continue"
    ELSE IF ~Exists(files, taskInfo.outputFilePath) THEN "RuntimeError"
    ELSE IF ~files[taskInfo.outputFilePath].complete THEN "IOError"
    ELSE "copy"

\* What the body of the loop does with the job at hand: "continue", the
\* exception it raises, or "copy".
CopyOutcome(files, taskInfo, roi) ==
    IF ~Exists(files, taskInfo.statusFilePath) THEN "continue"
    ELSE IF ~Exists(files, taskInfo.outputFilePath) THEN "RuntimeError"
    ELSE IF ~files[taskInfo.outputFilePath].complete THEN "IOError"
    ELSE IF ~ResultIsValid(files[taskInfo.outputFilePath], roi) THEN "AssertionError"
    ELSE "copy"

\* _copyFinishedResults: the body of the loop for the job at hand.
CopyFinishedResult ==
    /\ pc = "body"
    /\ LET taskInfo == taskInfos[current]
           outcome == CopyOutcome(fs, taskInfo, current)
       IN  IF outcome = "continue"
           THEN /\ pc' = "scan"
                /\ UNCHANGED <<raised, clusterResult, finished_rois>>
           ELSE IF outcome = "copy"
           THEN /\ clusterResult' = WriteClusterResult(clusterResult, taskInfo)
                /\ finished_rois' = finished_rois \cup {current}
                /\ pc' = "scan"
                /\ UNCHANGED raised
           ELSE /\ raised' = outcome
                /\ pc' = "raised"
                /\ UNCHANGED <<clusterResult, finished_rois>>
    /\ UNCHANGED <<inputVars, roiList, roiIndex, taskInfos, toLaunch, success,
                   totalTimer, toScan, current, result, exitCode, now, fs, removedStale, workers>>

\* Mutant of CheckForFailures: the jobs whose node process has died are
\* reported as failed.
CheckForFailures_SeesDeadProcesses(infos) ==
    {roi \in DOMAIN infos :
        /\ infos[roi].taskName \in DOMAIN workers
        /\ workers[infos[roi].taskName].pc \in {"crashed", "spawn failed"}}

\* OpClusterize._checkForFailures
CheckForFailures(infos) == {}

\* Mutant of EndPass: the finished jobs are not deleted from taskInfos.
EndPass_KeepsFinished ==
    /\ pc = "scan"
    /\ toScan = {}
    /\ LET failed_rois == CheckForFailures(taskInfos)
       IN  /\ success' = IF Cardinality(failed_rois) > 0 THEN FALSE ELSE success
           /\ taskInfos' = [q \in (DOMAIN taskInfos) \ failed_rois |-> taskInfos[q]]
    /\ current' = NoRoi
    /\ finished_rois' = {}
    /\ pc' = "loop"
    /\ UNCHANGED <<inputVars, raised, roiList, roiIndex, toLaunch, totalTimer, toScan,
                   result, exitCode, now, fs, removedStale, clusterResult, workers>>

\* The rest of a pass: the finished jobs and the failed jobs leave taskInfos
\* (the loop variable and the list of the pass are not read again).
EndPass ==
    /\ pc = "scan"
    /\ toScan = {}
    /\ LET polled == [q \in (DOMAIN taskInfos) \ finished_rois |-> taskInfos[q]]
           failed_rois == CheckForFailures(polled)
       IN  /\ success' = IF Cardinality(failed_rois) > 0 THEN FALSE ELSE success
           /\ taskInfos' = [q \in (DOMAIN polled) \ failed_rois |-> polled[q]]
    /\ current' = NoRoi
    /\ finished_rois' = {}
    /\ pc' = "loop"
    /\ UNCHANGED <<inputVars, raised, roiList, roiIndex, toLaunch, totalTimer, toScan,
                   result, exitCode, now, fs, removedStale, clusterResult, workers>>

\* result[0] = success; return result
Return ==
    /\ pc = "return"
    /\ result' = <<success>>
    /\ pc' = "returned"
    /\ UNCHANGED <<inputVars, raised, roiList, roiIndex, taskInfos, toLaunch, success,
                   totalTimer, toScan, current, finished_rois, exitCode, now, fs, removedStale,
                   clusterResult, workers>>

\* main: runWorkflow asserts the result; any exception makes main return 1.
Main ==
    /\ pc \in {"returned", "raised"}
    /\ exitCode' = IF pc = "returned" /\ result = <<TRUE>> THEN 0 ELSE 1
    /\ pc' = "exited"
    /\ UNCHANGED <<inputVars, raised, roiList, roiIndex, taskInfos, toLaunch, success,
                   totalTimer, toScan, current, finished_rois, result, now, fs, removedStale,
                   clusterResult, workers>>

\* ------------------------------------------------------------ OpTaskWorker

coordinatorVars == <<inputVars, pc, raised, roiList, roiIndex, taskInfos, toLaunch,
                     success, totalTimer, toScan, current, finished_rois, result,
                     exitCode, now, removedStale, clusterResult>>

\* The worker's region and its two paths, from its own TaskName and RoiString.
WorkerRoi(w) ==
    LET roi == RoiLoads(w.RoiString) IN <<roi.start, roi.stop>>

WorkerStatusFilePath(w) == StatusFilePath(w.TaskName, WorkerRoi(w))
WorkerOutputFilePath(w) == OutputFilePath(w.TaskName, WorkerRoi(w))

\* The result file of the worker's region, whole or still being written.
NodeResult(w, complete) ==
    LET roi == WorkerRoi(w)
    IN  [by |-> "worker", writer |-> w.TaskName, complete |-> complete,
         shape |-> [i \in 1 .. Len(roi[1]) |-> roi[2][i] - roi[1][i]],
         dtype |-> InputDtype, axistags |-> InputAxistags(taggedShape)]

SetWorker(t, w) == [workers EXCEPT ![t] = w]

\* execute begins: Roi.loads, the paths, tempfile.mkdtemp, h5py.File(tmp, 'w').
\* The temporary file is the worker's own: at "compute" it is being written,
\* from "copy" on it is whole.
WorkerOpenTmp(t) ==
    /\ workers[t].pc = "spawned"
    /\ workers' = SetWorker(t, [workers[t] EXCEPT !.pc = "compute"])
    /\ UNCHANGED <<coordinatorVars, fs>>

\* result[0] = opH5Writer.WriteImage.value; the temporary file is closed
WorkerWriteTmp(t) ==
    /\ workers[t].pc = "compute"
    /\ workers' = SetWorker(t, [workers[t] EXCEPT !.pc = "copy"])
    /\ UNCHANGED <<coordinatorVars, fs>>

\* shutil.copyfile(tmpOutputFile, outputFilePath) opens the destination
WorkerCopyOpen(t) ==
    /\ workers[t].pc = "copy"
    /\ fs' = WriteFile(fs, WorkerOutputFilePath(workers[t]), NodeResult(workers[t], FALSE))
    /\ workers' = SetWorker(t, [workers[t] EXCEPT !.pc = "copying"])
    /\ UNCHANGED coordinatorVars

\* shutil.copyfile has written the last block and closed the destination
WorkerCopyClose(t) ==
    /\ workers[t].pc = "copying"
    /\ fs' = WriteFile(fs, WorkerOutputFilePath(workers[t]), NodeResult(workers[t], TRUE))
    /\ workers' = SetWorker(t, [workers[t] EXCEPT !.pc = "mark"])
    /\ UNCHANGED coordinatorVars

\* Mutant of WorkerWriteStatus: the status file is written while the copy
\* is still under way.
WorkerWriteStatus_DuringCopy(t) ==
    /\ workers[t].pc = "copying"
    /\ fs' = WriteFile(fs, WorkerStatusFilePath(workers[t]),
                       [by |-> "worker", writer |-> workers[t].TaskName, complete |-> TRUE])
    /\ workers' = SetWorker(t, [workers[t] EXCEPT !.pc = "done"])
    /\ UNCHANGED coordinatorVars

\* statusFile = file(statusFilePath, 'w'); statusFile.write('Yay!')
WorkerWriteStatus(t) ==
    /\ workers[t].pc = "mark"
    /\ fs' = WriteFile(fs, WorkerStatusFilePath(workers[t]),
                       [by |-> "worker", writer |-> workers[t].TaskName, complete |-> TRUE])
    /\ workers' = SetWorker(t, [workers[t] EXCEPT !.pc = "done"])
    /\ UNCHANGED coordinatorVars

\* subprocess.call(taskInfo.command, shell=True) could not start the node
\* process (the command is not found, the queue rejects the submission): the
\* call returns a non-zero code to the thread, which drops it.
SpawnFails(t) ==
    /\ workers[t].pc = "spawned"
    /\ workers' = SetWorker(t, [workers[t] EXCEPT !.pc = "spawn failed"])
    /\ UNCHANGED <<coordinatorVars, fs>>

\* The node process dies (an exception, a kill) before it has written its
\* status file; what it wrote so far stays.
WorkerCrash(t) ==
    /\ workers[t].pc \in {"spawned", "compute", "copy", "copying", "mark"}
    /\ workers' = SetWorker(t, [workers[t] EXCEPT !.pc = "crashed"])
    /\ UNCHANGED <<coordinatorVars, fs>>

\* ------------------------------------------------------- the specifications

Coordinator ==
    \/ CallGetRoiList
    \/ PrepareTaskInfo
    \/ PrepareDone
    \/ \E roi \in toLaunch : LaunchTask(roi)
    \/ LaunchDone
    \/ LoopTest
    \/ Sleep
    \/ \E roi \in toScan : ScanNext(roi)
    \/ CopyFinishedResult
    \/ EndPass
    \/ Return
    \/ Main

Worker(t) ==
    \/ SpawnFails(t)
    \/ WorkerOpenTmp(t)
    \/ WorkerWriteTmp(t)
    \/ WorkerCopyOpen(t)
    \/ WorkerCopyClose(t)
    \/ WorkerWriteStatus(t)
    \/ WorkerCrash(t)

Next == Coordinator \/ \E t \in DOMAIN workers : Worker(t)

Spec == Init /\ [][Next]_vars

\* ------------------------------------------------- the partitioner alone

\* Tagged shapes: distinct axis keys in any order, each with an extent in
\* 1 .. MaxExtent.
TaggedShapes ==
    UNION {
        {sh \in [1 .. n -> [key : AxisKeys, dim : 1 .. MaxExtent]] :
            \A i, j \in 1 .. n : i # j => sh[i].key # sh[j].key}
        : n \in 1 .. Cardinality(AxisKeys)}

InitRoi ==
    /\ taggedShape \in TaggedShapes
    /\ numJobs \in (0 - MaxNumJobs) .. MaxNumJobs
    /\ commandFormat = <<"ilastik_clusterized", "{args}">>
    /\ timeOut = PollInterval
    /\ fs = NoFiles
    /\ removedStale = FALSE
    /\ pc = "start"
    /\ raised = ""
    /\ roiList = NoRoiList
    /\ roiIndex = 0
    /\ taskInfos = [q \in {} |-> 0]
    /\ toLaunch = {}
    /\ success = TRUE
    /\ totalTimer = NoTimer
    /\ toScan = {}
    /\ current = NoRoi
    /\ finished_rois = {}
    /\ result = << >>
    /\ exitCode = None
    /\ now = 0
    /\ clusterResult = NoDataset
    /\ workers = [q \in {} |-> 0]

NextRoi == CallGetRoiList

SpecRoi == InitRoi /\ [][NextRoi]_vars

\* A run in which the scratch directory can also lose the output file of a
\* job that is still polled for, after its status file was written (the case
\* _copyFinishedResults raises RuntimeError for).
OutputLost ==
    /\ pc \in {"loop", "sleep", "scan", "body"}
    /\ \E roi \in DOMAIN taskInfos :
         /\ Exists(fs, taskInfos[roi].statusFilePath)
         /\ Exists(fs, taskInfos[roi].outputFilePath)
         /\ fs' = Remove(fs, taskInfos[roi].outputFilePath)
    /\ UNCHANGED <<coordinatorVars, workers>>

NextFault == Next \/ OutputLost

SpecFault == Init /\ [][NextFault]_vars

\* A run in which a node process may have produced a result that does not
\* match the coordinator's input (its own project gave it another shape,
\* element type or axis tags): the case the checks of _copyFinishedResults
\* are there for.
MismatchedResults(f) ==
    { [f EXCEPT !.dtype = "uint8"],
      [f EXCEPT !.axistags = << >>],
      [f EXCEPT !.shape = [i \in 1 .. Len(f.shape) |-> f.shape[i] + 1]] }

ResultMismatch ==
    /\ pc \in {"loop", "sleep", "scan", "body"}
    /\ \E roi \in DOMAIN taskInfos :
         /\ roi \notin finished_rois
         /\ Exists(fs, taskInfos[roi].statusFilePath)
         /\ Exists(fs, taskInfos[roi].outputFilePath)
         /\ ResultIsValid(fs[taskInfos[roi].outputFilePath], roi)
         /\ \E bad \in MismatchedResults(fs[taskInfos[roi].outputFilePath]) :
              fs' = WriteFile(fs, taskInfos[roi].outputFilePath, bad)
    /\ UNCHANGED <<coordinatorVars, workers>>

NextMismatch == Next \/ ResultMismatch

SpecMismatch == Init /\ [][NextMismatch]_vars

\* A run with a timeout of a whole day, under the scheduling the code can
\* count on: the coordinator's thread always gets to take its next step
\* (time.sleep returns); nothing is assumed of the node processes.
InitDay ==
    /\ taggedShape = <<[key |-> "x", dim |-> 5]>>
    /\ numJobs = 1
    /\ commandFormat = <<"ilastik_clusterized", "{args}">>
    /\ timeOut = SecondsPerDay
    /\ fs = NoFiles
    /\ removedStale = FALSE
    /\ pc = "start"
    /\ raised = ""
    /\ roiList = NoRoiList
    /\ roiIndex = 0
    /\ taskInfos = [q \in {} |-> 0]
    /\ toLaunch = {}
    /\ success = TRUE
    /\ totalTimer = NoTimer
    /\ toScan = {}
    /\ current = NoRoi
    /\ finished_rois = {}
    /\ result = << >>
    /\ exitCode = None
    /\ now = 0
    /\ clusterResult = NoDataset
    /\ workers = [q \in {} |-> 0]

SpecDay == InitDay /\ [][Next]_vars /\ WF_vars(Coordinator)

\* The runs of Spec under the same scheduling.
SpecLive == Init /\ [][Next]_vars /\ WF_vars(Coordinator)

\* ================================================================ claims

\* ---- helpers of the claims
Rois == roiList.rois
Regions == 1 .. Len(Rois)
Called == pc # "start"

InRegion(c, r) == \A i \in 1 .. Len(c) : r.start[i] <= c[i] /\ c[i] < r.stop[i]

WithinShape(r, shape) ==
    \A i \in 1 .. Len(shape) : 0 <= r.start[i] /\ r.stop[i] <= shape[i]

IsPartition(rois, shape) ==
    /\ \A m \in 1 .. Len(rois) : WithinShape(rois[m], shape)
    /\ \A c \in Cells(shape) :
         Cardinality({m \in 1 .. Len(rois) : InRegion(c, rois[m])}) = 1

WholeShape(shape) == [start |-> [i \in 1 .. Len(shape) |-> 0], stop |-> shape]

NonSplittable(axis) == axis.key \notin {"x", "y", "z"} \/ axis.dim = 1

\* Job m (region m, task m - 1) has been validated and copied: its output
\* file passes the checks and each cell of its region holds its data.
Aggregated(m) ==
    LET taskInfo == MakeTaskInfo(m - 1, Rois[m])
    IN  /\ Exists(fs, taskInfo.outputFilePath)
        /\ fs[taskInfo.outputFilePath].complete
        /\ ResultIsValid(fs[taskInfo.outputFilePath], RoiKey(Rois[m]))
        /\ clusterResult.exists
        /\ \A c \in Cells(InputShape(taggedShape)) :
             InRegion(c, Rois[m]) => clusterResult.writes[c] = <<m - 1>>

ExecuteReturned == pc \in {"returned", "exited"} /\ result # << >>

\* C1: when execute returns true, no job is left in taskInfos and every region
\* of the partitioner has been validated and copied into cluster_result; when
\* it returns false, at least one job is still in taskInfos, not aggregated.
C1_ReturnValueTellsAggregation ==
    ExecuteReturned =>
        /\ result = <<TRUE>> =>
             /\ DOMAIN taskInfos = {}
             /\ \A m \in Regions : Aggregated(m)
        /\ result = <<FALSE>> =>
             \E m \in Regions :
                 /\ RoiKey(Rois[m]) \in DOMAIN taskInfos
                 /\ ~clusterResult.exists \/ \A c \in Cells(InputShape(taggedShape)) :
                        InRegion(c, Rois[m]) => clusterResult.writes[c] = << >>

C1_Witness ==
    /\ ExecuteReturned
    /\ result = <<TRUE>>
    /\ Len(Rois) >= 2

\* C2: for every shape and every job count >= 1, _getRoiList returns regions
\* that do not overlap and whose union is the whole shape.
C2_RoiListPartitionsEveryShape ==
    (Called /\ numJobs >= 1) =>
        /\ roiList.ok
        /\ IsPartition(Rois, InputShape(taggedShape))

\* What holds instead: whenever _getRoiList returns for a job count >= 1, its
\* regions partition the shape.
RoiListReturnedIsPartition ==
    (Called /\ numJobs >= 1 /\ roiList.ok) => IsPartition(Rois, InputShape(taggedShape))

\* C3: every region of the partitioner has stop[i] > start[i] on every axis.
C3_RegionsAreNonEmpty ==
    Called => \A m \in Regions : \A i \in 1 .. Len(taggedShape) :
                  Rois[m].stop[i] > Rois[m].start[i]

\* A clipped tail block: a region shorter along an axis than the first one.
C3_Witness ==
    /\ roiList.ok
    /\ \E m \in Regions : \E i \in 1 .. Len(taggedShape) :
         /\ Rois[m].stop[i] = taggedShape[i].dim
         /\ Rois[m].stop[i] - Rois[m].start[i] < Rois[1].stop[i] - Rois[1].start[i]

\* C4: with a job count <= 0, or with no x, y or z axis of extent > 1,
\* _getRoiList returns exactly one region, the whole shape.
C4_FallsBackToWholeShape ==
    (Called /\ (numJobs <= 0 \/ \A i \in 1 .. Len(taggedShape) : NonSplittable(taggedShape[i]))) =>
        /\ roiList.ok
        /\ Rois = <<WholeShape(InputShape(taggedShape))>>

\* C5: every region spans the whole of every axis that is not x, y or z or
\* whose extent is 1.
C5_NonSplittableAxesStayWhole ==
    Called => \A m \in Regions : \A i \in 1 .. Len(taggedShape) :
                  NonSplittable(taggedShape[i]) =>
                      /\ Rois[m].start[i] = 0
                      /\ Rois[m].stop[i] = taggedShape[i].dim

\* Several regions, over a shape with a channel axis of extent > 1 and a
\* space axis of extent 1.
C5_Witness ==
    /\ roiList.ok
    /\ Len(Rois) > 1
    /\ \E i \in 1 .. Len(taggedShape) : taggedShape[i].key = "c" /\ taggedShape[i].dim > 1
    /\ \E i \in 1 .. Len(taggedShape) : taggedShape[i].key = "y" /\ taggedShape[i].dim = 1

\* C6: with a command format that lacks {args}, the run fails before any node
\* process is spawned and leaves the scratch directory as it found it.
C6_MissingPlaceholderFailsFast ==
    ~HasArgsPlaceholder(commandFormat) =>
        /\ DOMAIN workers = {}
        /\ ~removedStale
        /\ \A p \in DOMAIN fs : fs[p].by = "prior"
        /\ pc \in {"start", "prepare", "raised", "exited"}
        /\ pc = "exited" => exitCode = 1

\* What holds instead: with such a command format nothing is ever spawned and
\* no file of the scratch directory is deleted or created.
MissingPlaceholderHasNoSideEffects ==
    ~HasArgsPlaceholder(commandFormat) =>
        /\ DOMAIN workers = {}
        /\ ~removedStale
        /\ \A p \in DOMAIN fs : fs[p].by = "prior"

\* C7: once a job of the run is launched, no file an earlier run left at the
\* status or output path of any job of the run is there any more; a status file
\* the poller finds was written by the node process launched for that job.
C7_StaleFilesGoneBeforeLaunch ==
    /\ DOMAIN workers # {} =>
         \A m \in Regions :
             LET taskInfo == MakeTaskInfo(m - 1, Rois[m])
             IN  \A p \in {taskInfo.statusFilePath, taskInfo.outputFilePath} :
                     Exists(fs, p) => fs[p].by = "worker" /\ fs[p].writer \in DOMAIN workers
    /\ pc = "body" =>
         LET taskInfo == taskInfos[current]
         IN  Exists(fs, taskInfo.statusFilePath) =>
                 /\ fs[taskInfo.statusFilePath].by = "worker"
                 /\ fs[taskInfo.statusFilePath].writer = taskInfo.taskName
                 /\ taskInfo.taskName \in DOMAIN workers
                 /\ workers[taskInfo.taskName].pc = "done"

\* The poller finds the status file of a job in a run that began with files
\* of an earlier run at its paths.
C7_Witness ==
    /\ pc = "body"
    /\ Exists(fs, taskInfos[current].statusFilePath)
    /\ removedStale

\* C8: in every state a status file exists only if the output file of the same
\* job exists and is complete.
C8_StatusImpliesCompleteOutput ==
    \A p \in DOMAIN fs :
        p.kind = "status" =>
            /\ Exists(fs, OutputFilePath(p.taskName, p.roi))
            /\ fs[OutputFilePath(p.taskName, p.roi)].complete

\* One worker has written its status file while another is in the middle of
\* its copy and the coordinator is polling.
C8_Witness ==
    /\ pc = "body"
    /\ \E t \in DOMAIN workers : workers[t].pc = "done"
    /\ \E t \in DOMAIN workers : workers[t].pc = "copying"

\* C9: in every state the file at a job's output path is absent or complete.
C9_OutputAbsentOrComplete ==
    \A p \in DOMAIN fs : p.kind = "output" => fs[p].complete

\* What holds instead: the coordinator opens an output file only when it is
\* complete (no pass ends in the IOError of a half-copied file).
NoPartialOutputIsRead == raised # "IOError"

\* C10: when the pass finds the status file of the job at hand but not its
\* output file, it raises RuntimeError: the job stays in taskInfos, is not
\* added to the finished jobs, nothing is written to cluster_result, execute
\* never returns and main reports failure.
C10_MissingOutputAborts ==
    /\ [][(/\ pc = "body"
           /\ pc' # "body"
           /\ Exists(fs, taskInfos[current].statusFilePath)
           /\ ~Exists(fs, taskInfos[current].outputFilePath))
          => (/\ pc' = "raised"
              /\ raised' = "RuntimeError"
              /\ finished_rois' = finished_rois
              /\ current \in DOMAIN taskInfos'
              /\ clusterResult' = clusterResult)]_vars
    /\ [](raised = "RuntimeError" =>
              /\ pc \in {"raised", "exited"}
              /\ result = << >>
              /\ pc = "exited" => exitCode = 1
              /\ current \notin finished_rois
              /\ clusterResult.exists =>
                     \A c \in Cells(InputShape(taggedShape)) :
                         InSlice(c, taskInfos[current].subregion) =>
                             clusterResult.writes[c] = << >>)

\* The run has ended on the missing output of one job after another job of
\* the same pass was copied.
C10_Witness ==
    /\ raised = "RuntimeError"
    /\ pc = "exited"
    /\ exitCode = 1
    /\ finished_rois # {}
    /\ Exists(fs, taskInfos[current].statusFilePath)
    /\ ~Exists(fs, taskInfos[current].outputFilePath)

\* ---- C11
\* The pass has ended on a failed check of the result of the job at hand
\* (the AssertionError of _prepareTaskInfos is raised before any pass).
ValidationFailed == raised = "AssertionError" /\ current # NoRoi

\* C11: when the result file of the job at hand fails a check (shape, element
\* type, axis tags), the pass raises: the job is not added to the finished
\* jobs and nothing is written to cluster_result, execute never returns and
\* main reports failure; cluster_result changes only in a step that has found
\* the result of the job at hand valid, and only inside that job's region.
C11_InvalidResultAborts ==
    /\ [][(/\ pc = "body"
           /\ pc' # "body"
           /\ Exists(fs, taskInfos[current].statusFilePath)
           /\ Exists(fs, taskInfos[current].outputFilePath)
           /\ fs[taskInfos[current].outputFilePath].complete
           /\ ~ResultIsValid(fs[taskInfos[current].outputFilePath], current))
          => (/\ pc' = "raised"
              /\ raised' = "AssertionError"
              /\ finished_rois' = finished_rois
              /\ clusterResult' = clusterResult)]_vars
    /\ [][clusterResult' # clusterResult
          => (/\ pc = "body"
              /\ Exists(fs, taskInfos[current].outputFilePath)
              /\ ResultIsValid(fs[taskInfos[current].outputFilePath], current)
              /\ \A c \in Cells(InputShape(taggedShape)) :
                     ~InSlice(c, taskInfos[current].subregion) =>
                         /\ clusterResult.exists => clusterResult'.writes[c] = clusterResult.writes[c]
                         /\ ~clusterResult.exists => clusterResult'.writes[c] = << >>)]_vars
    /\ [](ValidationFailed =>
              /\ pc \in {"raised", "exited"}
              /\ result = << >>
              /\ pc = "exited" => exitCode = 1
              /\ current \notin finished_rois
              /\ clusterResult.exists =>
                     \A c \in Cells(InputShape(taggedShape)) :
                         InSlice(c, taskInfos[current].subregion) =>
                             clusterResult.writes[c] = << >>)

\* The run has ended on the element type of one job's result after another
\* job of the same pass was copied.
C11_Witness ==
    /\ ValidationFailed
    /\ pc = "exited"
    /\ exitCode = 1
    /\ finished_rois # {}
    /\ fs[taskInfos[current].outputFilePath].dtype # InputDtype

\* ---- C12
\* C12: the clock of the timeout is started when launching begins: once the
\* thread of a job has been started, totalTimer has been entered.
C12_TimerStartsWhenLaunchingBegins ==
    DOMAIN workers # {} => totalTimer.startTime # None

\* What holds instead: totalTimer is entered once, after the thread of the
\* last job was started, and it is the one clock the timeout test reads.
TimerStartsAfterLastLaunch ==
    totalTimer.startTime # None =>
        /\ toLaunch = {}
        /\ pc \notin {"start", "prepare", "launch"}
        /\ {workers[t].TaskName : t \in DOMAIN workers} = {m - 1 : m \in Regions}

\* ---- C13
\* The keys of taskInfos as _prepareTaskInfos returned it.
AllJobs == {RoiKey(Rois[m]) : m \in Regions}

NoStatusWritten == \A p \in DOMAIN fs : p.kind # "status"

\* C13: with a timeout of one poll interval and no status file ever written,
\* execute returns False after one sleep and one pass (the elapsed-time test
\* after them fires), with every job still in taskInfos.
C13_OneIntervalTimeout ==
    (ExecuteReturned /\ timeOut = PollInterval /\ NoStatusWritten) =>
        /\ result = <<FALSE>>
        /\ now - totalTimer.startTime = PollInterval
        /\ DOMAIN taskInfos = AllJobs

\* What holds instead: the same, for a run that has at least one job.
OneIntervalTimeoutWithJobs ==
    (ExecuteReturned /\ timeOut = PollInterval /\ NoStatusWritten /\ Len(Rois) >= 1) =>
        /\ result = <<FALSE>>
        /\ now - totalTimer.startTime = PollInterval
        /\ DOMAIN taskInfos = AllJobs

\* ---- C14
\* C14: whatever the timeout and whatever the node processes do, the polling
\* loop of execute is left in the end.
C14_PollingLoopReturns ==
    (pc = "loop") ~> (pc \in {"return", "raised"})

\* What holds instead: the loop goes on only while jobs are left and
\* Timer.seconds() is below the timeout, and it is left in the end in every
\* run whose timeout is below a day (checked under SpecLive).
LoopGoesOnOnlyBelowTimeout ==
    pc \in {"sleep", "scan", "body"} =>
        /\ DOMAIN taskInfos # {}
        /\ TimerSeconds(totalTimer) <= timeOut

\* ---- C15
\* The jobs of taskInfos whose node process could not be spawned.
SpawnFailed(infos) ==
    {roi \in DOMAIN infos :
        /\ infos[roi].taskName \in DOMAIN workers
        /\ workers[infos[roi].taskName].pc = "spawn failed"}

\* C15: a job whose process could not be spawned is marked failed at once:
\* the pass that ends after the failure removes it from taskInfos and clears
\* success, without waiting for the timeout.
C15_SpawnFailureMarksJobFailed ==
    [][(pc = "scan" /\ pc' = "loop" /\ SpawnFailed(taskInfos) # {})
          => (/\ success' = FALSE
              /\ \A roi \in SpawnFailed(taskInfos) : roi \notin DOMAIN taskInfos')]_vars

\* ---- C16
Polling == pc \in {"loop", "sleep", "scan", "body"}

\* C16: launching never waits for a node process: in the launch loop the
\* coordinator's next step (start the next thread, or enter the timer) can
\* always be taken, whatever the launched commands are doing, and the
\* polling loop is entered with every job launched.
C16_LaunchNeverBlocks ==
    /\ pc = "launch" => ENABLED (LaunchDone \/ \E roi \in toLaunch : LaunchTask(roi))
    /\ Polling => DOMAIN workers = {m - 1 : m \in Regions}

\* The coordinator is polling while the command of the first job has not
\* returned and the job launched after it has finished.
C16_Witness ==
    /\ pc = "sleep"
    /\ Len(Rois) >= 2
    /\ workers[0].pc = "spawned"
    /\ workers[1].pc = "done"

\* ---- C17
\* A step keeps every process of the run and starts none again; a process it
\* adds is the one process of a job taken off the launch loop's list.
StartsOnlyNewProcesses ==
    /\ \A t \in DOMAIN workers :
          /\ t \in DOMAIN workers'
          /\ workers'[t].pc = "spawned" => workers[t].pc = "spawned"
    /\ \A t \in (DOMAIN workers') \ (DOMAIN workers) :
          /\ pc = "launch"
          /\ Cardinality((DOMAIN workers') \ (DOMAIN workers)) = 1
          /\ \E roi \in toLaunch : taskInfos[roi].taskName = t /\ roi \notin toLaunch'

\* C17: the command of a job is started once: a process is started only in
\* the launch loop and only for a job that has none yet, no process of the
\* run is started again or forgotten, and after the launch loop there is one
\* process for each region.
C17_EachJobLaunchedOnce ==
    /\ [][StartsOnlyNewProcesses]_vars
    /\ [](pc \notin {"start", "prepare", "launch", "raised", "exited"} =>
              DOMAIN workers = {m - 1 : m \in Regions})
    /\ [](pc \in {"start", "prepare"} => DOMAIN workers = {})

\* The run has timed out on a job whose process died: the job is still in
\* taskInfos and no other process was started for it.
C17_Witness ==
    /\ pc = "exited"
    /\ result = <<FALSE>>
    /\ \E roi \in DOMAIN taskInfos : workers[taskInfos[roi].taskName].pc = "crashed"

\* ---- C18
\* C18: a job whose node process died before writing its status file stays in
\* taskInfos through every pass; success is kept while the loop runs and is
\* cleared only by the timeout test, and execute then returns False.
C18_DeadWorkerWaitsForTimeout ==
    \A m \in Regions :
        ((m - 1) \in DOMAIN workers /\ workers[m - 1].pc \in {"crashed", "spawn failed"}) =>
            /\ RoiKey(Rois[m]) \in DOMAIN taskInfos
            /\ Polling => success
            /\ ~success => (pc \in {"return", "returned", "exited"}
                             /\ TimerSeconds(totalTimer) >= timeOut)
            /\ ExecuteReturned => result = <<FALSE>>

\* A pass has ended, the job of a dead process is still polled for and the
\* job of another process has been copied and removed.
C18_Witness ==
    /\ pc = "sleep"
    /\ now > totalTimer.startTime
    /\ \E roi \in DOMAIN taskInfos : workers[taskInfos[roi].taskName].pc = "crashed"
    /\ DOMAIN taskInfos # AllJobs

C20_NoGraceAfterTimeout ==
    /\ [][~success =>
             /\ clusterResult' = clusterResult
             /\ taskInfos' = taskInfos
             /\ finished_rois' = finished_rois
             /\ pc' \in {"return", "returned", "exited"}]_vars
    /\ [](~success => pc \in {"return", "returned", "exited"})

\* The run has timed out and a job that was still polled for has its status
\* file: it was written after the last pass and is not copied.
C20_Witness ==
    /\ pc = "exited"
    /\ ~success
    /\ \E roi \in DOMAIN taskInfos :
           /\ Exists(fs, taskInfos[roi].statusFilePath)
           /\ \A c \in Cells(InputShape(taggedShape)) :
                  InSlice(c, taskInfos[roi].subregion) =>
                      (~clusterResult.exists \/ clusterResult.writes[c] = << >>)

\* ---- C21
\* What cluster_result holds at a cell ('nothing' while the dataset is not
\* created): the jobs whose data was written there, in order.
WritesAt(dataset, c) == IF dataset.exists THEN dataset.writes[c] ELSE << >>

\* C21: a step that changes cluster_result is the copy of the job at hand: it
\* writes that job's data to the cells of its region and leaves every other
\* cell as it was; in every state each cell has been written at most once,
\* by the job whose region holds it.
C21_CellsWrittenOnceByOwner ==
    /\ [][clusterResult' # clusterResult =>
             /\ pc = "body"
             /\ \A c \in Cells(InputShape(taggedShape)) :
                    WritesAt(clusterResult', c) =
                        IF InRegion(c, [start |-> current[1], stop |-> current[2]])
                        THEN Append(WritesAt(clusterResult, c), taskInfos[current].taskName)
                        ELSE WritesAt(clusterResult, c)]_vars
    /\ [](\A c \in Cells(InputShape(taggedShape)) :
              /\ Len(WritesAt(clusterResult, c)) <= 1
              /\ \A n \in 1 .. Len(WritesAt(clusterResult, c)) :
                     LET t == WritesAt(clusterResult, c)[n]
                     IN  (t + 1) \in Regions /\ InRegion(c, Rois[t + 1]))

\* In the second pass a job has just been copied, next to the data of a job
\* copied in the first pass and since deleted from taskInfos.
C21_Witness ==
    /\ pc = "scan"
    /\ now - totalTimer.startTime = 2 * PollInterval
    /\ finished_rois # {}
    /\ \E c \in Cells(InputShape(taggedShape)) :
           /\ Len(WritesAt(clusterResult, c)) = 1
           /\ RoiKey(Rois[WritesAt(clusterResult, c)[1] + 1]) \notin DOMAIN taskInfos

\* ---- C22
\* The paths the coordinator derives for job m (region m, task m - 1).
JobStatusPath(m) == MakeTaskInfo(m - 1, Rois[m]).statusFilePath
JobOutputPath(m) == MakeTaskInfo(m - 1, Rois[m]).outputFilePath

\* C22: the paths a node process derives from its TaskName and its loaded
\* region are the paths the coordinator derived for that job (the ones it
\* cleaned and polls), every file a node process has written lies at a path
\* of its own job, and no two jobs of the run share a path.
C22_PathsAgreeAndAreDistinct ==
    /\ \A t \in DOMAIN workers :
           /\ (t + 1) \in Regions
           /\ WorkerStatusFilePath(workers[t]) = JobStatusPath(t + 1)
           /\ WorkerOutputFilePath(workers[t]) = JobOutputPath(t + 1)
    /\ \A roi \in DOMAIN taskInfos :
           /\ taskInfos[roi].statusFilePath = StatusFilePath(taskInfos[roi].taskName, roi)
           /\ taskInfos[roi].outputFilePath = OutputFilePath(taskInfos[roi].taskName, roi)
           /\ taskInfos[roi].statusFilePath = JobStatusPath(taskInfos[roi].taskName + 1)
           /\ taskInfos[roi].outputFilePath = JobOutputPath(taskInfos[roi].taskName + 1)
    /\ \A p \in DOMAIN fs :
           fs[p].by = "worker" =>
               /\ (fs[p].writer + 1) \in Regions
               /\ p \in {JobStatusPath(fs[p].writer + 1), JobOutputPath(fs[p].writer + 1)}
    /\ \A m, n \in Regions :
           /\ JobStatusPath(m) # JobOutputPath(n)
           /\ m < n => (JobStatusPath(m) # JobStatusPath(n) /\ JobOutputPath(m) # JobOutputPath(n))

\* The poller finds, at the path it derived for the second job of the run,
\* the status file that job's node process wrote.
C22_Witness ==
    /\ pc = "body"
    /\ taskInfos[current].taskName = 1
    /\ Exists(fs, taskInfos[current].statusFilePath)
    /\ fs[taskInfos[current].statusFilePath].by = "worker"
    /\ Exists(fs, WorkerOutputFilePath(workers[1]))

====
